---- MODULE Spec2Model ----
(***************************************************************************)
(* Model of movie_database.py: the MovieDatabase persistence class (two    *)
(* SQLite tables, movies and ratings) and the MovieRatingApp menu loop.    *)
(*                                                                         *)
(* Spec      : calls of add_movie, add_rating and delete_movie.            *)
(* SpecRange : the same, with rating values around the bounds of the CHECK.*)
(* SpecQuery : the same, with calls of get_all_movies.                     *)
(* SpecOrder : the same, with calls of get_movie_ratings and a clock.      *)
(* SpecApp   : the menu loop MovieRatingApp.run, one action per choice.    *)
(***************************************************************************)
EXTENDS Integers, Sequences, FiniteSets, TLC

VARIABLES
    movies,     \* rows of table movies: [id, title]
    ratings,    \* rows of table ratings: [id, movie_id, rating, date_rated]
    seq,        \* table sqlite_sequence kept by AUTOINCREMENT: [movies, ratings]
    clock,      \* CURRENT_TIMESTAMP, in whole seconds
    last,       \* the last call: its name, its arguments and what it returned
    issued,     \* the ids add_movie has returned so far
    running,    \* MovieRatingApp.running
    pc,         \* where MovieRatingApp.run is: "loop", "returned" or "raised"
    closes      \* number of calls of MovieDatabase.close

vars == <<movies, ratings, seq, clock, last, issued, running, pc, closes>>

----------------------------------------------------------------------------
(* Bounds of the model *)

MaxMovies == 2      \* rows ever inserted into movies
MaxRatings == 3     \* rows ever inserted into ratings
MaxClock == 1       \* last second the clock reaches

----------------------------------------------------------------------------
(* Values *)

\* A Python str (its characters as codes) or None.
None == [isNone |-> TRUE, chars |-> <<>>]
Str(s) == [isNone |-> FALSE, chars |-> s]

\* Movie ids passed by callers: ids already assigned, ids not assigned yet.
MovieIdInputs == 1..MaxMovies

\* An aggregate of SQL: NULL, or a number of hundredths.
NullNum == [isNull |-> TRUE, val |-> 0]
Num(v) == [isNull |-> FALSE, val |-> v]

DB == [movies |-> movies, ratings |-> ratings, seq |-> seq]

\* MovieDatabase.connect opens the connection and sets no PRAGMA: SQLite
\* leaves foreign-key enforcement off on a new connection.
ForeignKeysEnabled == FALSE

----------------------------------------------------------------------------
(* Helpers *)

SetMax(S) == IF S = {} THEN 0 ELSE CHOOSE x \in S : \A y \in S : y <= x

RECURSIVE SumRatings(_)
SumRatings(S) ==
    IF S = {} THEN 0
    ELSE LET r == CHOOSE x \in S : TRUE IN r.rating + SumRatings(S \ {r})

\* All orderings of the rows of S (sequences without repetition).
Orderings(S) ==
    {s \in [1..Cardinality(S) -> S] : \A i, j \in 1..Cardinality(S) : i # j => s[i] # s[j]}

MovieExists(d, movie_id) == \E m \in d.movies : m.id = movie_id

----------------------------------------------------------------------------
(* The schema, MovieDatabase.create_tables *)

\* A column without NOT NULL.
NotNullTitleOff(title) == TRUE

\* title TEXT NOT NULL
NotNullTitle(title) == ~title.isNone

\* A CHECK whose bounds are exclusive.
CheckRatingExclusive(rating) == rating > 0 /\ rating < 10

\* rating REAL NOT NULL CHECK(rating >= 0 AND rating <= 10)
CheckRating(rating) == rating >= 0 /\ rating <= 10

\* FOREIGN KEY (movie_id) REFERENCES movies (id): checked on insert only
\* when the connection enforces foreign keys.
ForeignKeyOk(d, movie_id) == ForeignKeysEnabled => MovieExists(d, movie_id)

\* ON DELETE CASCADE: acts only when the connection enforces foreign keys.
Cascade(rs, movie_id) ==
    IF ForeignKeysEnabled THEN {r \in rs : r.movie_id # movie_id} ELSE rs

\* The rowid of a table without AUTOINCREMENT: one more than the largest
\* rowid now in the table.
NextRowidReuse(rows, s) == SetMax({r.id : r \in rows}) + 1

\* id INTEGER PRIMARY KEY AUTOINCREMENT: one more than the largest rowid
\* the table has ever held (sqlite_sequence), deleted rows included.
NextRowid(rows, s) == SetMax({s} \cup {r.id : r \in rows}) + 1

----------------------------------------------------------------------------
(* The methods of MovieDatabase, as functions of the tables.  Each yields  *)
(* the tables afterwards (d), the value returned (ret) and whether the     *)
(* call raised instead of returning (raised).                              *)

add_movie(d, title) ==
    IF ~NotNullTitle(title)
    THEN [d |-> d, ret |-> 0, raised |-> TRUE]      \* sqlite3.IntegrityError
    ELSE LET id == NextRowid(d.movies, d.seq.movies) IN
         [d |-> [d EXCEPT !.movies = @ \cup {[id |-> id, title |-> title]},
                          !.seq.movies = id],
          ret |-> id,                                \* cursor.lastrowid
          raised |-> FALSE]

add_rating(d, movie_id, rating, now) ==
    IF ~(CheckRating(rating) /\ ForeignKeyOk(d, movie_id))
    THEN [d |-> d, ret |-> FALSE, raised |-> FALSE]  \* except IntegrityError
    ELSE LET id == NextRowid(d.ratings, d.seq.ratings) IN
         [d |-> [d EXCEPT !.ratings = @ \cup {[id |-> id, movie_id |-> movie_id,
                                               rating |-> rating, date_rated |-> now]},
                          !.seq.ratings = id],
          ret |-> TRUE,
          raised |-> FALSE]

delete_movie(d, movie_id) ==
    LET gone == {m \in d.movies : m.id = movie_id} IN
    [d |-> [d EXCEPT !.movies = @ \ gone,
                     !.ratings = IF gone = {} THEN @ ELSE Cascade(@, movie_id)],
     ret |-> Cardinality(gone) > 0,                  \* cursor.rowcount > 0
     raised |-> FALSE]

get_movie_by_id(d, movie_id) ==
    LET found == {m \in d.movies : m.id = movie_id} IN
    IF found = {} THEN [found |-> FALSE, row |-> [id |-> 0, title |-> None]]
    ELSE [found |-> TRUE, row |-> CHOOSE m \in found : TRUE]

\* ORDER BY date_rated ASC.
DateOrderAsc(a, b) == a.date_rated <= b.date_rated

\* ORDER BY date_rated DESC: a row may stand before another when its
\* timestamp is not the earlier one.
DateOrder(a, b) == a.date_rated >= b.date_rated

\* The rows get_movie_ratings selects, in each order the ORDER BY allows:
\* rows with equal date_rated come in an order SQLite does not determine.
SelectRatings(d, movie_id) ==
    LET rows == {r \in d.ratings : r.movie_id = movie_id} IN
    {s \in Orderings(rows) : \A i, j \in 1..Len(s) : i < j => DateOrder(s[i], s[j])}

\* SELECT rating, comment, date_rated
RatingColumns(s) == [i \in 1..Len(s) |-> [rating |-> s[i].rating, date_rated |-> s[i].date_rated]]

get_movie_ratings(d, movie_id) == {RatingColumns(s) : s \in SelectRatings(d, movie_id)}

\* FROM movies m LEFT JOIN ratings r ON m.id = r.movie_id: a movie without
\* a matching rating gives one row whose r columns are NULL.
NullRating == [id |-> 0, movie_id |-> 0, rating |-> 0, date_rated |-> 0]
LeftJoin(d) ==
    UNION {LET match == {r \in d.ratings : m.id = r.movie_id} IN
           IF match = {} THEN {[m |-> m, rnull |-> TRUE, r |-> NullRating]}
           ELSE {[m |-> m, rnull |-> FALSE, r |-> r] : r \in match}
           : m \in d.movies}

\* Cutting off after the second decimal instead of rounding.
Trunc2(num, den) == (100 * num) \div den

\* ROUND(x, 2) of x = num / den >= 0, in hundredths: SQLite rounds to the
\* nearest hundredth, halves away from zero.
Round2(num, den) == (200 * num + den) \div (2 * den)

\* ROUND(AVG(r.rating), 2): AVG skips NULLs and is NULL over no value.
RoundAvg(group) ==
    LET vals == {j.r : j \in {g \in group : ~g.rnull}} IN
    IF vals = {} THEN NullNum
    ELSE Num(Round2(SumRatings(vals), Cardinality(vals)))

\* COUNT(r.id): the rows of the group whose r.id is not NULL.
CountIds(group) == Cardinality({g \in group : ~g.rnull})

\* BINARY collation of ORDER BY m.title: byte by byte, a prefix first.
RECURSIVE TitleLeq(_, _)
TitleLeq(a, b) ==
    IF a = <<>> THEN TRUE
    ELSE IF b = <<>> THEN FALSE
    ELSE IF Head(a) # Head(b) THEN Head(a) < Head(b)
    ELSE TitleLeq(Tail(a), Tail(b))

\* GROUP BY m.id: one summary row per movie id.
Summaries(d) ==
    {LET group == {j \in LeftJoin(d) : j.m.id = id} IN
     LET m == (CHOOSE j \in group : TRUE).m IN
     [id |-> id, title |-> m.title,
      avg_rating |-> RoundAvg(group), rating_count |-> CountIds(group)]
     : id \in {j.m.id : j \in LeftJoin(d)}}

get_all_movies(d) ==
    {s \in Orderings(Summaries(d)) :
        \A i, j \in 1..Len(s) : i < j => TitleLeq(s[i].title.chars, s[j].title.chars)}

----------------------------------------------------------------------------
(* State after MovieRatingApp() : a new database file, both tables empty.  *)

Init ==
    /\ movies = {}
    /\ ratings = {}
    /\ seq = [movies |-> 0, ratings |-> 0]
    /\ clock = 0
    /\ last = [op |-> "init"]
    /\ issued = {}
    /\ running = TRUE
    /\ pc = "loop"
    /\ closes = 0

Stored(d) ==
    /\ movies' = d.movies
    /\ ratings' = d.ratings
    /\ seq' = d.seq

\* The store's clock moves on by a second.
Tick ==
    /\ clock < MaxClock
    /\ clock' = clock + 1
    /\ UNCHANGED <<movies, ratings, seq, last, issued, running, pc, closes>>

----------------------------------------------------------------------------
(* Direct calls of the MovieDatabase methods.  The titles and the rating   *)
(* values the caller passes are drawn from the sets T and R.               *)

AddMovie(T) ==
    \E title \in T :
        LET r == add_movie(DB, title) IN
        /\ r.d.seq.movies <= MaxMovies
        /\ Stored(r.d)
        /\ last' = [op |-> "add_movie", title |-> title, ret |-> r.ret, raised |-> r.raised]
        /\ issued' = IF r.raised THEN issued ELSE issued \cup {r.ret}
        /\ UNCHANGED <<clock, running, pc, closes>>

AddRating(R) ==
    \E movie_id \in MovieIdInputs, rating \in R :
        LET r == add_rating(DB, movie_id, rating, clock) IN
        /\ r.d.seq.ratings <= MaxRatings
        /\ Stored(r.d)
        /\ last' = [op |-> "add_rating", movie_id |-> movie_id, rating |-> rating,
                    ret |-> r.ret, raised |-> r.raised]
        /\ UNCHANGED <<clock, issued, running, pc, closes>>

DeleteMovie ==
    \E movie_id \in MovieIdInputs :
        LET r == delete_movie(DB, movie_id) IN
        /\ Stored(r.d)
        /\ last' = [op |-> "delete_movie", movie_id |-> movie_id,
                    ret |-> r.ret, raised |-> r.raised]
        /\ UNCHANGED <<clock, issued, running, pc, closes>>

\* rows is the result with each row's rowid kept, to tell the rows apart.
GetMovieRatings ==
    \E movie_id \in MovieIdInputs :
        \E s \in SelectRatings(DB, movie_id) :
            /\ last' = [op |-> "get_movie_ratings", movie_id |-> movie_id,
                        rows |-> s, ret |-> RatingColumns(s), raised |-> FALSE]
            /\ UNCHANGED <<movies, ratings, seq, clock, issued, running, pc, closes>>

GetAllMovies ==
    \E res \in get_all_movies(DB) :
        /\ last' = [op |-> "get_all_movies", ret |-> res, raised |-> FALSE]
        /\ UNCHANGED <<movies, ratings, seq, clock, issued, running, pc, closes>>

\* A step that is a call of method op: every call leaves its name in last,
\* and the one step that is no call moves the clock.
Called(op) == last'.op = op /\ clock' = clock

----------------------------------------------------------------------------
(* Spec: calls of add_movie, add_rating and delete_movie in any order.     *)

TitleInputs == {None, Str(<<>>), Str(<<1>>)}
RatingInputs == {-1, 8}

Next ==
    \/ AddMovie(TitleInputs)
    \/ AddRating(RatingInputs)
    \/ DeleteMovie

Spec == Init /\ [][Next]_vars

----------------------------------------------------------------------------
(* Claims checked under Spec *)

\* C1: in every reachable state every row of ratings has a movie_id that
\* is the id of a row of movies (no orphan rating).
C1_NoOrphanRating ==
    \A r \in ratings : \E m \in movies : m.id = r.movie_id

\* C2: add_rating with a movie_id that is the id of no movie in the store
\* returns False, does not raise, and leaves the ratings table unchanged,
\* whatever the rating value.
C2_AddRatingUnknownMovieFails ==
    [][(Called("add_rating") /\ ~MovieExists(DB, last'.movie_id))
        => (last'.ret = FALSE /\ ~last'.raised /\ ratings' = ratings)]_vars

\* C3: delete_movie(m) on an existing movie removes exactly the row of m
\* and exactly the rating rows of m, leaves every other row unchanged, and
\* get_movie_ratings(m) is empty afterwards.
C3_DeleteCascades ==
    [][(Called("delete_movie") /\ MovieExists(DB, last'.movie_id))
        => LET m == last'.movie_id IN
           /\ last'.ret = TRUE
           /\ movies' = {x \in movies : x.id # m}
           /\ Cardinality(movies') = Cardinality(movies) - 1
           /\ ratings' = {r \in ratings : r.movie_id # m}
           /\ get_movie_ratings(DB', m) = {<<>>}]_vars

\* C5: every id add_movie returns is positive and greater than every id an
\* earlier add_movie returned, so no id is assigned twice, also after the
\* movie that held it, the largest id included, was deleted.
C5_IdsIncrease ==
    [][(Called("add_movie") /\ ~last'.raised)
        => (last'.ret > 0 /\ \A i \in issued : last'.ret > i)]_vars

\* C5 witness: add_movie returned 2 after movie 1, then the largest id,
\* had been deleted.
C5_Witness ==
    /\ last.op = "add_movie"
    /\ last.ret = 2
    /\ issued = {1, 2}
    /\ ~MovieExists(DB, 1)

NonEmptyTitle(t) == ~t.isNone /\ t.chars # <<>>

\* C8 as stated: add_movie with an empty title fails and adds no movie
\* row, and every stored movie has a non-empty title.
C8_EmptyTitleRejected ==
    [][Called("add_movie")
        => /\ (last'.title = Str(<<>>) => (last'.raised /\ movies' = movies))
           /\ \A m \in movies' : NonEmptyTitle(m.title)]_vars

\* C8 as amended: add_movie with no title (None) raises and adds no movie
\* row, so every stored movie has a title that is not NULL; an empty string
\* is a title like another: its row is added and its id returned.
C8_NullTitleRejected ==
    [][Called("add_movie")
        => /\ (last'.title.isNone => (last'.raised /\ movies' = movies))
           /\ (last'.title = Str(<<>>)
                 => /\ ~last'.raised
                    /\ ~MovieExists(DB, last'.ret)
                    /\ movies' = movies \cup {[id |-> last'.ret, title |-> Str(<<>>)]})
           /\ \A m \in movies' : ~m.title.isNone]_vars

\* C8 witness: a movie with the empty title is stored and the last call,
\* add_movie(None), raised.
C8_Witness ==
    /\ last.op = "add_movie"
    /\ last.title.isNone
    /\ last.raised
    /\ \E m \in movies : m.title = Str(<<>>)

\* C10: right after add_movie returns id m, get_movie_ratings(m) is empty
\* and get_all_movies gives m rating_count 0 and avg_rating None.
C10_NewMovieHasNoRatings ==
    [][(Called("add_movie") /\ ~last'.raised)
        => LET m == last'.ret IN
           /\ get_movie_ratings(DB', m) = {<<>>}
           /\ \A res \in get_all_movies(DB') : \A i \in 1..Len(res) :
                res[i].id = m => (res[i].rating_count = 0 /\ res[i].avg_rating = NullNum)]_vars

----------------------------------------------------------------------------
(* SpecRange: as Spec, with rating values on both sides of both bounds of  *)
(* the CHECK constraint.                                                   *)

RangeTitleInputs == {Str(<<1>>)}
RangeRatingInputs == {-1, 0, 10, 11}

NextRange ==
    \/ AddMovie(RangeTitleInputs)
    \/ AddRating(RangeRatingInputs)
    \/ DeleteMovie

SpecRange == Init /\ [][NextRange]_vars

\* C4: for an existing movie add_rating returns True and adds exactly one
\* rating row when 0 <= rating <= 10, and returns False and adds no row
\* when rating < 0 or rating > 10; every stored rating value is in [0, 10].
C4_RatingRange ==
    [][/\ \A x \in ratings' : 0 <= x.rating /\ x.rating <= 10
       /\ (Called("add_rating") /\ MovieExists(DB, last'.movie_id))
            => LET r == last'.rating IN
               /\ ~last'.raised
               /\ (0 <= r /\ r <= 10)
                    => /\ last'.ret = TRUE
                       /\ Cardinality(ratings') = Cardinality(ratings) + 1
                       /\ \E x \in ratings' \ ratings :
                            /\ ratings' = ratings \cup {x}
                            /\ x.movie_id = last'.movie_id
                            /\ x.rating = r
               /\ (r < 0 \/ r > 10)
                    => (last'.ret = FALSE /\ ratings' = ratings)]_vars

\* C4 witness: a movie holds ratings 0 and 10, and add_rating of 11 to it
\* has just returned False.
C4_Witness ==
    /\ last.op = "add_rating"
    /\ last.rating = 11
    /\ last.ret = FALSE
    /\ MovieExists(DB, last.movie_id)
    /\ \E x, y \in ratings :
        /\ x.movie_id = last.movie_id /\ x.rating = 0
        /\ y.movie_id = last.movie_id /\ y.rating = 10

----------------------------------------------------------------------------
(* SpecQuery: movies and ratings are added and deleted, and get_all_movies *)
(* is called in between.                                                   *)

\* Two titles whose order by length differs from their BINARY order.
QueryTitleInputs == {Str(<<2>>), Str(<<1, 2>>)}
QueryRatingInputs == {8, 10}

NextQuery ==
    \/ AddMovie(QueryTitleInputs)
    \/ AddRating(QueryRatingInputs)
    \/ DeleteMovie
    \/ GetAllMovies

SpecQuery == Init /\ [][NextQuery]_vars

Abs(x) == IF x < 0 THEN -x ELSE x
Min(a, b) == IF a <= b THEN a ELSE b

\* a <= b in lexicographic order: a is a prefix of b, or a is smaller at
\* the first place where they differ.
LexLeq(a, b) ==
    \E k \in 0..Min(Len(a), Len(b)) :
        /\ \A i \in 1..k : a[i] = b[i]
        /\ (k = Len(a) \/ (k < Len(b) /\ a[k + 1] < b[k + 1]))

RatingsOf(movie_id) == {r \in ratings : r.movie_id = movie_id}

\* What C6 says of a result but for the value of avg_rating: one row per
\* movie in the store, by title ascending, rating_count the number of the
\* movie's rating rows, avg_rating None exactly when that number is 0.
SummaryShape(res) ==
    /\ Len(res) = Cardinality(movies)
    /\ \A m \in movies :
        Cardinality({i \in 1..Len(res) : res[i].id = m.id /\ res[i].title = m.title}) = 1
    /\ \A i, j \in 1..Len(res) : i < j => LexLeq(res[i].title.chars, res[j].title.chars)
    /\ \A i \in 1..Len(res) :
        /\ res[i].rating_count = Cardinality(RatingsOf(res[i].id))
        /\ res[i].avg_rating.isNull <=> Cardinality(RatingsOf(res[i].id)) = 0

\* C6 as stated: avg_rating, when present, is the sum of the movie's
\* ratings divided by their number (val counts hundredths).
C6_AvgIsExactMean ==
    last.op = "get_all_movies"
        => /\ SummaryShape(last.ret)
           /\ \A i \in 1..Len(last.ret) :
                LET rs == RatingsOf(last.ret[i].id) IN
                rs # {} => last.ret[i].avg_rating.val * Cardinality(rs) = 100 * SumRatings(rs)

\* C6 as amended: avg_rating, when present, is the sum of the movie's
\* ratings divided by their number, rounded to 2 decimal places (the
\* multiple of 0.01 nearest to the mean).
C6_AvgIsRoundedMean ==
    last.op = "get_all_movies"
        => /\ SummaryShape(last.ret)
           /\ \A i \in 1..Len(last.ret) :
                LET rs == RatingsOf(last.ret[i].id) IN
                rs # {} =>
                    2 * Abs(100 * SumRatings(rs) - last.ret[i].avg_rating.val * Cardinality(rs))
                        <= Cardinality(rs)

\* C6 witness: get_all_movies returned two movies, the first with ratings
\* 8, 8, 10 (mean 8.666..., reported as 8.67), the second with none.
C6_Witness ==
    /\ last.op = "get_all_movies"
    /\ Len(last.ret) = 2
    /\ last.ret[1].title # last.ret[2].title
    /\ last.ret[1].rating_count = 3
    /\ last.ret[1].avg_rating = Num(867)
    /\ last.ret[2].rating_count = 0
    /\ last.ret[2].avg_rating = NullNum

----------------------------------------------------------------------------
(* SpecOrder: ratings are added while the clock moves on, and              *)
(* get_movie_ratings is called in between.                                 *)

OrderTitleInputs == {Str(<<1>>)}
OrderRatingInputs == {8}

NextOrder ==
    \/ AddMovie(OrderTitleInputs)
    \/ AddRating(OrderRatingInputs)
    \/ DeleteMovie
    \/ GetMovieRatings
    \/ Tick

SpecOrder == Init /\ [][NextOrder]_vars

\* The result holds each rating row of the movie once, and its columns.
RatingsShape ==
    /\ Len(last.rows) = Cardinality(RatingsOf(last.movie_id))
    /\ {last.rows[i] : i \in 1..Len(last.rows)} = RatingsOf(last.movie_id)
    /\ Len(last.ret) = Len(last.rows)
    /\ \A i \in 1..Len(last.rows) :
        /\ last.ret[i].rating = last.rows[i].rating
        /\ last.ret[i].date_rated = last.rows[i].date_rated

\* C9 as stated: of any two ratings of the movie, the one whose add_rating
\* call came later (the larger rowid) stands earlier in the result, also
\* when both calls fell within the same second.
C9_LaterCallFirst ==
    (last.op = "get_movie_ratings" /\ MovieExists(DB, last.movie_id))
        => /\ RatingsShape
           /\ \A i, j \in 1..Len(last.rows) :
                last.rows[i].id > last.rows[j].id => i < j

\* C9 as amended: of any two ratings of the movie with different
\* date_rated, the one with the later date_rated stands earlier in the
\* result; the order of ratings of the same second is not determined.
C9_LaterTimestampFirst ==
    last.op = "get_movie_ratings"
        => /\ RatingsShape
           /\ \A i, j \in 1..Len(last.rows) :
                last.rows[i].date_rated > last.rows[j].date_rated => i < j

\* C9 witness: a result of three ratings where a rating of a later second
\* stands before one of an earlier second, and of two ratings of the same
\* second the one added first stands first.
C9_Witness ==
    /\ last.op = "get_movie_ratings"
    /\ MovieExists(DB, last.movie_id)
    /\ Len(last.rows) = 3
    /\ \E i, j \in 1..3 :
        i < j /\ last.rows[i].date_rated > last.rows[j].date_rated
    /\ \E i, j \in 1..3 :
        /\ i < j
        /\ last.rows[i].date_rated = last.rows[j].date_rated
        /\ last.rows[i].id < last.rows[j].id

----------------------------------------------------------------------------
(* SpecApp: MovieRatingApp.run, one action per turn of its menu loop.      *)

\* What the user may type at a prompt for a required text: get_input
\* strips it and asks again until something is left.
AppTextInputs == {Str(<<>>), Str(<<1>>)}
get_input_required(T) == {t \in T : t.chars # <<>>}

\* What the user may type at "Rating (0-10): ": add_rating_to_movie asks
\* again until 0 <= rating <= 10.
AppRatingInputs == {-1, 8, 11}
rating_prompt(R) == {r \in R : 0 <= r /\ r <= 10}

\* FitsInt64: whether the integer typed fits SQLite's 64-bit INTEGER;
\* binding one that does not makes cursor.execute raise OverflowError.
FitsInt64 == BOOLEAN

AppVars(op, raised) ==
    /\ last' = [op |-> op, raised |-> raised]
    /\ pc' = IF raised THEN "raised" ELSE "loop"
    /\ UNCHANGED <<clock, running, closes>>

\* Choice 1: MovieRatingApp.add_movie, with the rating it offers to add.
AppAddMovie ==
    /\ pc = "loop" /\ running
    /\ \E title \in get_input_required(AppTextInputs), year_fits \in FitsInt64,
          rate \in BOOLEAN, rating \in rating_prompt(AppRatingInputs) :
        IF ~year_fits
        THEN /\ UNCHANGED <<movies, ratings, seq, issued>>
             /\ AppVars("app.add_movie", TRUE)
        ELSE LET r1 == add_movie(DB, title)
                 r2 == IF rate /\ get_movie_by_id(r1.d, r1.ret).found
                       THEN add_rating(r1.d, r1.ret, rating, clock)
                       ELSE [d |-> r1.d, ret |-> FALSE, raised |-> FALSE] IN
             /\ r2.d.seq.movies <= MaxMovies
             /\ r2.d.seq.ratings <= MaxRatings
             /\ Stored(r2.d)
             /\ issued' = issued \cup {r1.ret}
             /\ AppVars("app.add_movie", FALSE)

\* Choice 2: view_all_movies.
AppViewAllMovies ==
    /\ pc = "loop" /\ running
    /\ \E res \in get_all_movies(DB) :
        /\ last' = [op |-> "app.view_all_movies", ret |-> res, raised |-> FALSE]
        /\ UNCHANGED <<movies, ratings, seq, clock, issued, running, pc, closes>>

\* Choice 3: search_movies, a query of the titles.
AppSearchMovies ==
    /\ pc = "loop" /\ running
    /\ UNCHANGED <<movies, ratings, seq, issued>>
    /\ AppVars("app.search_movies", FALSE)

\* Choice 4: add_rating_to_movie, asking for the movie id.
AppAddRating ==
    /\ pc = "loop" /\ running
    /\ \E movie_id \in MovieIdInputs, id_fits \in FitsInt64,
          rating \in rating_prompt(AppRatingInputs) :
        IF ~id_fits
        THEN /\ UNCHANGED <<movies, ratings, seq, issued>>
             /\ AppVars("app.add_rating_to_movie", TRUE)
        ELSE LET r == IF get_movie_by_id(DB, movie_id).found
                      THEN add_rating(DB, movie_id, rating, clock)
                      ELSE [d |-> DB, ret |-> FALSE, raised |-> FALSE] IN
             /\ r.d.seq.ratings <= MaxRatings
             /\ Stored(r.d)
             /\ UNCHANGED issued
             /\ AppVars("app.add_rating_to_movie", FALSE)

\* Choice 5: view_movie_details.
AppViewMovieDetails ==
    /\ pc = "loop" /\ running
    /\ \E movie_id \in MovieIdInputs, id_fits \in FitsInt64 :
        IF ~id_fits
        THEN /\ UNCHANGED <<movies, ratings, seq, issued>>
             /\ AppVars("app.view_movie_details", TRUE)
        ELSE \E s \in IF get_movie_by_id(DB, movie_id).found
                      THEN get_movie_ratings(DB, movie_id) ELSE {<<>>} :
             /\ last' = [op |-> "app.view_movie_details", movie_id |-> movie_id,
                         ret |-> s, raised |-> FALSE]
             /\ UNCHANGED <<movies, ratings, seq, clock, issued, running, pc, closes>>

\* Choice 6: MovieRatingApp.delete_movie, asking for confirmation.
AppDeleteMovie ==
    /\ pc = "loop" /\ running
    /\ \E movie_id \in MovieIdInputs, id_fits \in FitsInt64, confirm \in BOOLEAN :
        IF ~id_fits
        THEN /\ UNCHANGED <<movies, ratings, seq, issued>>
             /\ AppVars("app.delete_movie", TRUE)
        ELSE LET r == IF get_movie_by_id(DB, movie_id).found /\ confirm
                      THEN delete_movie(DB, movie_id)
                      ELSE [d |-> DB, ret |-> FALSE, raised |-> FALSE] IN
             /\ Stored(r.d)
             /\ UNCHANGED issued
             /\ AppVars("app.delete_movie", FALSE)

\* Choice 7: running becomes False, the loop ends and run closes the store.
AppExit ==
    /\ pc = "loop" /\ running
    /\ running' = FALSE
    /\ closes' = closes + 1
    /\ pc' = "returned"
    /\ last' = [op |-> "app.exit", raised |-> FALSE]
    /\ UNCHANGED <<movies, ratings, seq, clock, issued>>

\* Any other choice.
AppInvalidChoice ==
    /\ pc = "loop" /\ running
    /\ UNCHANGED <<movies, ratings, seq, issued>>
    /\ AppVars("app.invalid_choice", FALSE)

NextApp ==
    \/ AppAddMovie
    \/ AppViewAllMovies
    \/ AppSearchMovies
    \/ AppAddRating
    \/ AppViewMovieDetails
    \/ AppDeleteMovie
    \/ AppExit
    \/ AppInvalidChoice
    \/ Tick

SpecApp == Init /\ [][NextApp]_vars

\* C7: on every way MovieRatingApp.run ends, by choice 7 or by an error
\* raised from a persistence call, MovieDatabase.close has been called
\* exactly once.
C7_ClosedOnEveryExit ==
    pc # "loop" => closes = 1

====
